---- MODULE Spec2Model ----
(***************************************************************************)
(* BookStack -> Open WebUI synchronisation service.                        *)
(*                                                                         *)
(*   app/rag_processor.py   RAGProcessor: chunking configuration read from *)
(*                          the environment, _split_into_chunks (the       *)
(*                          RecursiveCharacterTextSplitter built in        *)
(*                          __init__ with separators "\n\n", "\n", " ",    *)
(*                          ""), simulated ingestion.                      *)
(*   app/main.py            the webhook handler bookstack_webhook and the  *)
(*                          background unit process_bookstack_update.      *)
(*   app/bookstack_api.py   BookStackAPI, the document fetcher.            *)
(*                                                                         *)
(* A Python string is a sequence of one-character strings.  Every piece of *)
(* text the splitter handles is a record [t |-> text, p |-> position]: t   *)
(* is the string the code holds, p is a history value, the 1-based index   *)
(* in the input of the call at which t starts.  p is never read by the     *)
(* operators that compute t.                                               *)
(***************************************************************************)
EXTENDS Integers, Sequences, FiniteSets, TLC

\* Longest input string of a chunking call.
MaxLen == 5
\* Largest numeric CHUNK_SIZE put in the environment (CHUNK_OVERLAP: one more).
MaxSize == 4
\* Number of notifications the webhook receives in a run.
MaxRequests == 2
MaxUnits == 2

Letters == {"a", "b"}
\* The characters str.strip() removes, among those of the alphabet.
Whitespace == {" ", "\n"}
Alphabet == Letters \cup Whitespace

Texts == UNION {[1..n -> Alphabet] : n \in 0..MaxLen}

(***************************************************************************)
(* Environment values and int().                                           *)
(***************************************************************************)
Digits == <<"0", "1", "2", "3", "4", "5", "6", "7", "8", "9">>

Unset == [set |-> FALSE, v |-> <<>>]
EnvStr(s) == [set |-> TRUE, v |-> s]

\* str(n) for n >= 0: the decimal numeral put in the environment.
RECURSIVE Numeral(_)
Numeral(n) ==
    IF n < 10 THEN <<Digits[n + 1]>>
    ELSE Numeral(n \div 10) \o <<Digits[(n % 10) + 1]>>

IsDigit(c) == \E d \in 1..10 : Digits[d] = c
DigitValue(c) == (CHOOSE d \in 1..10 : Digits[d] = c) - 1

RECURSIVE DecimalValue(_)
DecimalValue(s) ==
    IF s = <<>> THEN 0
    ELSE 10 * DecimalValue(SubSeq(s, 1, Len(s) - 1)) + DigitValue(s[Len(s)])

\* int(s) for a string of digits and letters: ValueError unless s is a
\* non-empty run of digits.
int(s) ==
    IF s # <<>> /\ \A i \in 1..Len(s) : IsDigit(s[i])
    THEN [ok |-> TRUE, n |-> DecimalValue(s)]
    ELSE [ok |-> FALSE, n |-> 0]

\* int(os.getenv(name, default)): the default is already an int.
getenv_int(e, default) ==
    IF e.set THEN int(e.v) ELSE [ok |-> TRUE, n |-> default]

DefaultChunkSize == 1000
DefaultChunkOverlap == 200

SizeEnvValues ==
    {Unset, EnvStr(<<"x">>)} \cup {EnvStr(Numeral(n)) : n \in 1..MaxSize}
OverlapEnvValues ==
    {Unset, EnvStr(<<"x">>)} \cup {EnvStr(Numeral(n)) : n \in 0..(MaxSize + 1)}

(***************************************************************************)
(* Strings.                                                                *)
(***************************************************************************)
Piece(t, p) == [t |-> t, p |-> p]

\* a + b on pieces that follow each other in the input.
Cat(a, b) == Piece(a.t \o b.t, a.p)

\* re.search(re.escape(sep), text) at index i or later: the least index of
\* a match, 0 when there is none.
FirstMatch(text, sep, i) ==
    LET hits == {j \in i..(Len(text) - Len(sep) + 1) :
                     SubSeq(text, j, j + Len(sep) - 1) = sep}
    IN  IF hits = {} THEN 0 ELSE CHOOSE j \in hits : \A k \in hits : j <= k

\* re.split("(" + re.escape(sep) + ")", text), sep non-empty: the texts
\* between the leftmost non-overlapping matches alternate with the matches.
RECURSIVE re_split(_, _, _)
re_split(s, sep, from) ==
    LET m == FirstMatch(s.t, sep, from)
    IN  IF m = 0
        THEN <<Piece(SubSeq(s.t, from, Len(s.t)), s.p + from - 1)>>
        ELSE <<Piece(SubSeq(s.t, from, m - 1), s.p + from - 1),
               Piece(sep, s.p + m - 1)>>
             \o re_split(s, sep, m + Len(sep))

\* [x for x in xs if x != ""]
NonEmpty(xs) == SelectSeq(xs, LAMBDA x : x.t # <<>>)

\* _split_text_with_regex with the comprehension's range one pair short:
\* the last piece is lost.
_split_text_with_regex_short_range(s, sep) ==
    IF sep # <<>>
    THEN LET _splits == re_split(s, sep, 1)
             n == Len(_splits)
             splits == [k \in 1..(((n - 1) \div 2) - 1) |->
                           Cat(_splits[2 * k], _splits[2 * k + 1])]
         IN  NonEmpty(<<_splits[1]>> \o splits)
    ELSE NonEmpty([k \in 1..Len(s.t) |-> Piece(<<s.t[k]>>, s.p + k - 1)])

\* _split_text_with_regex(text, separator, keep_separator = True): each
\* separator is kept at the start of the piece that follows it.
_split_text_with_regex(s, sep) ==
    IF sep # <<>>
    THEN LET _splits == re_split(s, sep, 1)
             n == Len(_splits)
             splits == [k \in 1..((n - 1) \div 2) |->
                           Cat(_splits[2 * k], _splits[2 * k + 1])]
         IN  NonEmpty(<<_splits[1]>> \o splits)
    ELSE NonEmpty([k \in 1..Len(s.t) |-> Piece(<<s.t[k]>>, s.p + k - 1)])

\* separator.join(docs)
RECURSIVE join(_, _)
join(docs, separator) ==
    IF docs = <<>> THEN Piece(<<>>, 1)
    ELSE IF Len(docs) = 1 THEN docs[1]
    ELSE Cat(Cat(docs[1], Piece(separator, 0)), join(Tail(docs), separator))

\* text.strip()
RECURSIVE lstrip(_)
lstrip(s) ==
    IF s.t # <<>> /\ s.t[1] \in Whitespace
    THEN lstrip(Piece(Tail(s.t), s.p + 1))
    ELSE s

RECURSIVE rstrip(_)
rstrip(s) ==
    IF s.t # <<>> /\ s.t[Len(s.t)] \in Whitespace
    THEN rstrip(Piece(SubSeq(s.t, 1, Len(s.t) - 1), s.p))
    ELSE s

strip(s) == rstrip(lstrip(s))

(***************************************************************************)
(* State.                                                                  *)
(***************************************************************************)
VARIABLES
    env_CHUNK_SIZE,     \* os.environ["CHUNK_SIZE"], or Unset
    env_CHUNK_OVERLAP,  \* os.environ["CHUNK_OVERLAP"], or Unset
    phase,              \* "new", "ready", "config_error", "returned"
    chunk_size,         \* self.chunk_size, the splitter's _chunk_size
    chunk_overlap,      \* self.chunk_overlap, the splitter's _chunk_overlap
    content,            \* argument of the last _split_into_chunks call
    chunks,             \* the list it returned
    starts,             \* history: where in content each chunk starts
    MONITORED_BOOK_IDS, \* main.MONITORED_BOOK_IDS
    background_tasks,   \* the tasks added with background_tasks.add_task
    responses,          \* history: each notification and what was answered
    env_OPENWEBUI,      \* os.environ: OPENWEBUI_BASE_URL, _API_KEY,
                        \* _KNOWLEDGE_BASE_NAME
    env_BOOKSTACK,      \* os.environ: BOOKSTACK_BASE_URL, _TOKEN_ID,
                        \* _TOKEN_SECRET
    openwebui,          \* self.base_url, self.api_key, self.kb_name
    last_call,          \* history: the last call made on the processor
    ingested,           \* history: the ingestion calls that call made
    payloads,           \* the chunk payloads that call built
    results,            \* history: what the splitter returned, per content
    units               \* the runs of process_bookstack_update

procVars == <<env_CHUNK_SIZE, env_CHUNK_OVERLAP, phase, chunk_size,
              chunk_overlap, content, chunks, starts>>
hookVars == <<MONITORED_BOOK_IDS, background_tasks, responses>>
envVars == <<env_OPENWEBUI, env_BOOKSTACK>>
callVars == <<last_call, ingested, payloads, results>>
vars == <<procVars, hookVars, envVars, openwebui, callVars, units>>

(***************************************************************************)
(* RecursiveCharacterTextSplitter, as configured by RAGProcessor.__init__: *)
(* length_function = len, keep_separator = True, strip_whitespace = True,  *)
(* is_separator_regex = False.                                             *)
(***************************************************************************)
\* The cascade in the opposite order, the finest separator first.
separators_finest_first == << <<>>, <<" ">>, <<"\n">>, <<"\n", "\n">> >>

\* separators=["\n\n", "\n", " ", ""]
separators == << <<"\n", "\n">>, <<"\n">>, <<" ">>, <<>> >>

\* TextSplitter.__init__ without its check of the overlap.
TextSplitter_accepts_all(size, overlap) == FALSE

\* TextSplitter.__init__ raises ValueError for these arguments.
TextSplitter_rejects(size, overlap) == overlap > size

\* _join_docs without the test that turns an empty text into None.
_join_docs_keep_empty(docs, separator) ==
    <<strip(join(docs, separator))>>

\* TextSplitter._join_docs: None is the empty list, a text a list of one.
_join_docs(docs, separator) ==
    LET text == strip(join(docs, separator))
    IN  IF text.t = <<>> THEN <<>> ELSE <<text>>

\* The inner while loop without the disjunct total > chunk_overlap: pieces
\* are popped only until the next one fits.
RECURSIVE pop_until_fit(_, _, _, _)
pop_until_fit(current_doc, total, _len, separator_len) ==
    IF /\ total + _len
             + (IF Len(current_doc) > 0 THEN separator_len ELSE 0)
             > chunk_size
       /\ total > 0
    THEN pop_until_fit(Tail(current_doc),
                       total - (Len(current_doc[1].t)
                          + (IF Len(current_doc) > 1 THEN separator_len ELSE 0)),
                       _len, separator_len)
    ELSE [current_doc |-> current_doc, total |-> total]

\* The inner while loop of TextSplitter._merge_splits.
RECURSIVE pop_overlap(_, _, _, _)
pop_overlap(current_doc, total, _len, separator_len) ==
    IF \/ total > chunk_overlap
       \/ /\ total + _len
                + (IF Len(current_doc) > 0 THEN separator_len ELSE 0)
                > chunk_size
          /\ total > 0
    THEN pop_overlap(Tail(current_doc),
                     total - (Len(current_doc[1].t)
                        + (IF Len(current_doc) > 1 THEN separator_len ELSE 0)),
                     _len, separator_len)
    ELSE [current_doc |-> current_doc, total |-> total]

\* buffer_full with >= for >: a buffer is flushed when the next piece
\* would fill it exactly.
buffer_full_at_limit(total, _len, separator_len, current_doc) ==
    total + _len + (IF Len(current_doc) > 0 THEN separator_len ELSE 0)
        >= chunk_size

\* buffer_full measured against chunk_size + chunk_overlap.
buffer_full_with_slack(total, _len, separator_len, current_doc) ==
    total + _len + (IF Len(current_doc) > 0 THEN separator_len ELSE 0)
        > chunk_size + chunk_overlap

\* Whether the next piece d no longer fits the running buffer.
buffer_full(total, _len, separator_len, current_doc) ==
    total + _len + (IF Len(current_doc) > 0 THEN separator_len ELSE 0)
        > chunk_size

\* The for loop of TextSplitter._merge_splits from piece i on, and the
\* final flush.
RECURSIVE merge_from(_, _, _, _, _, _)
merge_from(splits, i, docs, current_doc, total, separator) ==
    IF i > Len(splits)
    THEN docs \o _join_docs(current_doc, separator)
    ELSE LET d == splits[i]
             _len == Len(d.t)
             separator_len == Len(separator)
             flush == buffer_full(total, _len, separator_len, current_doc)
                        /\ Len(current_doc) > 0
             kept == IF flush
                     THEN pop_overlap(current_doc, total, _len, separator_len)
                     ELSE [current_doc |-> current_doc, total |-> total]
             docs2 == IF flush
                      THEN docs \o _join_docs(current_doc, separator)
                      ELSE docs
             current2 == Append(kept.current_doc, d)
         IN  merge_from(splits, i + 1, docs2, current2,
                        kept.total + _len
                          + (IF Len(current2) > 1 THEN separator_len ELSE 0),
                        separator)

_merge_splits(splits, separator) ==
    merge_from(splits, 1, <<>>, <<>>, 0, separator)

\* The separator loop of _split_text: the index of the first separator that
\* is "" or occurs in the text, 0 when the loop ends without a break.
RECURSIVE pick_separator(_, _, _)
pick_separator(text, seps, i) ==
    IF i > Len(seps) THEN 0
    ELSE IF seps[i] = <<>> THEN i
    ELSE IF FirstMatch(text, seps[i], 1) # 0 THEN i
    ELSE pick_separator(text, seps, i + 1)

\* The test that sends a piece to _good_splits.
is_good_split(s) == Len(s.t) < chunk_size

RECURSIVE _split_text(_, _)
RECURSIVE split_from(_, _, _, _, _, _)

\* The for loop of _split_text from piece i on, and the final merge.
split_from(splits, i, _good_splits, final_chunks, new_separators, _separator) ==
    IF i > Len(splits)
    THEN IF _good_splits # <<>>
         THEN final_chunks \o _merge_splits(_good_splits, _separator)
         ELSE final_chunks
    ELSE LET s == splits[i]
         IN  IF is_good_split(s)
             THEN split_from(splits, i + 1, Append(_good_splits, s),
                             final_chunks, new_separators, _separator)
             ELSE LET merged == IF _good_splits # <<>>
                                THEN final_chunks
                                       \o _merge_splits(_good_splits, _separator)
                                ELSE final_chunks
                      other == IF new_separators = <<>>
                               THEN <<s>>
                               ELSE _split_text(s, new_separators)
                  IN  split_from(splits, i + 1, <<>>, merged \o other,
                                 new_separators, _separator)

\* RecursiveCharacterTextSplitter._split_text
_split_text(text, seps) ==
    LET k == pick_separator(text.t, seps, 1)
        separator == IF k = 0 THEN seps[Len(seps)] ELSE seps[k]
        new_separators == IF k = 0 \/ seps[k] = <<>>
                          THEN <<>>
                          ELSE SubSeq(seps, k + 1, Len(seps))
        splits == _split_text_with_regex(text, separator)
    IN  split_from(splits, 1, <<>>, <<>>, new_separators, <<>>)

\* split_text with a shortcut for inputs that fit one chunk.
split_text_shortcut(text) ==
    IF Len(text) <= chunk_size
    THEN <<Piece(text, 1)>>
    ELSE _split_text(Piece(text, 1), separators)

\* RecursiveCharacterTextSplitter.split_text
split_text(text) == _split_text(Piece(text, 1), separators)

TextOf(pieces) == [i \in 1..Len(pieces) |-> pieces[i].t]
StartOf(pieces) == [i \in 1..Len(pieces) |-> pieces[i].p]

(***************************************************************************)
(* Credentials in the environment.  os.getenv(name) is None (Unset) or a   *)
(* string, possibly empty.                                                 *)
(***************************************************************************)
CredValues == {Unset, EnvStr(<<>>), EnvStr(<<"k">>)}

\* bool(v) for None or a string.
truthy(v) == v.set /\ v.v # <<>>

\* The environment the test fixtures set up.
FixtureOpenWebUI ==
    [base_url |-> EnvStr(<<"w">>), api_key |-> EnvStr(<<"k">>),
     kb_name |-> EnvStr(<<"n">>)]
FixtureBookStack ==
    [base_url |-> EnvStr(<<"h">>), token_id |-> EnvStr(<<"i">>),
     token_secret |-> EnvStr(<<"s">>)]

\* The fields before __init__ has run.
NoFields == [base_url |-> Unset, api_key |-> Unset, kb_name |-> Unset]

\* No call has been made on the processor yet.
NoCalls ==
    /\ last_call = [op |-> "none", page_id |-> 0, text |-> <<>>, list |-> <<>>]
    /\ ingested = <<>>
    /\ payloads = <<>>
    /\ results = {}

(***************************************************************************)
(* RAGProcessor on its own, as the unit tests build it: app/main.py is not *)
(* loaded, there is no webhook.                                            *)
(***************************************************************************)
Init ==
    /\ env_CHUNK_SIZE \in SizeEnvValues
    /\ env_CHUNK_OVERLAP \in OverlapEnvValues
    /\ phase = "new"
    /\ chunk_size = 0
    /\ chunk_overlap = 0
    /\ content = <<>>
    /\ chunks = <<>>
    /\ starts = <<>>
    /\ MONITORED_BOOK_IDS = {}
    /\ background_tasks = <<>>
    /\ responses = <<>>
    /\ env_OPENWEBUI = FixtureOpenWebUI
    /\ env_BOOKSTACK = FixtureBookStack
    /\ openwebui = NoFields
    /\ NoCalls
    /\ units = <<>>

\* __init__ with an except branch that resets only the value that failed
\* to parse.
RAGProcessor_init_keep_parsed ==
    /\ phase = "new"
    /\ LET size == getenv_int(env_CHUNK_SIZE, DefaultChunkSize)
           overlap == getenv_int(env_CHUNK_OVERLAP, DefaultChunkOverlap)
           cs == IF size.ok THEN size.n ELSE DefaultChunkSize
           co == IF overlap.ok THEN overlap.n ELSE DefaultChunkOverlap
       IN  /\ chunk_size' = cs
           /\ chunk_overlap' = co
           /\ phase' = IF TextSplitter_rejects(cs, co)
                       THEN "config_error" ELSE "ready"
    /\ openwebui' = env_OPENWEBUI
    /\ UNCHANGED <<env_CHUNK_SIZE, env_CHUNK_OVERLAP, content, chunks, starts>>
    /\ UNCHANGED <<hookVars, envVars, callVars, units>>

\* RAGProcessor.__init__: the chunking configuration and the splitter.
RAGProcessor_init ==
    /\ phase = "new"
    /\ LET size == getenv_int(env_CHUNK_SIZE, DefaultChunkSize)
           overlap == getenv_int(env_CHUNK_OVERLAP, DefaultChunkOverlap)
           numeric == size.ok /\ overlap.ok
           cs == IF numeric THEN size.n ELSE DefaultChunkSize
           co == IF numeric THEN overlap.n ELSE DefaultChunkOverlap
       IN  /\ chunk_size' = cs
           /\ chunk_overlap' = co
           /\ phase' = IF TextSplitter_rejects(cs, co)
                       THEN "config_error" ELSE "ready"
    /\ openwebui' = env_OPENWEBUI
    /\ UNCHANGED <<env_CHUNK_SIZE, env_CHUNK_OVERLAP, content, chunks, starts>>
    /\ UNCHANGED <<hookVars, envVars, callVars, units>>

\* RAGProcessor._split_into_chunks(content)
_split_into_chunks ==
    /\ phase = "ready"
    /\ \E text \in Texts :
          LET result == split_text(text)
          IN  /\ content' = text
              /\ chunks' = TextOf(result)
              /\ starts' = StartOf(result)
    /\ phase' = "returned"
    /\ UNCHANGED <<env_CHUNK_SIZE, env_CHUNK_OVERLAP, chunk_size, chunk_overlap>>
    /\ UNCHANGED <<hookVars, envVars, openwebui, callVars, units>>

Next == RAGProcessor_init \/ _split_into_chunks

Spec == Init /\ [][Next]_vars

(***************************************************************************)
(* The web application of app/main.py.                                     *)
(***************************************************************************)
BookIds == {1, 2, 3}
PageIds == {1, 2}
Events == {"page_update", "page_create", "page_delete", "created", "updated"}

\* The event kinds as the design text names them.
SupportedEvents_short_names == {"created", "updated"}

\* The events line 80 of main.py lets through.
SupportedEvents == {"page_update", "page_create"}

\* The attributes of a BookStackAPI object that can be called.
BookStackAPI_methods ==
    {"_make_request", "get_shelf_details", "get_page_content",
     "is_book_in_shelf"}

\* bookstack_api.is_book_monitored(book_id, MONITORED_BOOK_IDS): the class
\* defines no such method; this is the membership test the handler's
\* messages describe.
is_book_monitored(book_id, monitored) == book_id \in monitored

\* The module body of main.py has run: BOOKSTACK_BOOK_IDS parsed to a
\* non-empty list of ids, RAGProcessor() built with no chunking variables
\* in the environment.
InitApp ==
    /\ env_CHUNK_SIZE = Unset
    /\ env_CHUNK_OVERLAP = Unset
    /\ phase = "ready"
    /\ chunk_size = DefaultChunkSize
    /\ chunk_overlap = DefaultChunkOverlap
    /\ content = <<>>
    /\ chunks = <<>>
    /\ starts = <<>>
    /\ MONITORED_BOOK_IDS \in (SUBSET BookIds) \ {{}}
    /\ background_tasks = <<>>
    /\ responses = <<>>
    /\ env_OPENWEBUI = FixtureOpenWebUI
    /\ env_BOOKSTACK = FixtureBookStack
    /\ openwebui = env_OPENWEBUI
    /\ NoCalls
    /\ units = <<>>

\* The JSON bodies the handler returns.
Ignored(reason) == [status |-> "ignored", reason |-> reason]
Success(message) == [status |-> "success", message |-> message]
\* What the framework answers (status 500) when an exception leaves the
\* handler.
ServerError(exception) == [status |-> "error", exception |-> exception]

\* History record of one notification: what came in, what went out.
Response(event, page_id, book_id, body) ==
    [event |-> event, page_id |-> page_id, book_id |-> book_id, body |-> body]

\* The handler with its two checks in the other order: the book is looked
\* up before the event kind is tested.
bookstack_webhook_lookup_first ==
    /\ Len(responses) < MaxRequests
    /\ \E event \in Events, page_id \in PageIds, book_id \in BookIds :
          IF "is_book_monitored" \notin BookStackAPI_methods
          THEN /\ responses' = Append(responses,
                     Response(event, page_id, book_id,
                        ServerError("AttributeError")))
               /\ UNCHANGED background_tasks
          ELSE IF ~is_book_monitored(book_id, MONITORED_BOOK_IDS)
          THEN /\ responses' = Append(responses,
                     Response(event, page_id, book_id,
                        Ignored(<<"Book not in monitored list">>)))
               /\ UNCHANGED background_tasks
          ELSE IF event \notin SupportedEvents
          THEN /\ responses' = Append(responses,
                     Response(event, page_id, book_id,
                        Ignored(<<"Event type ", event, " not supported">>)))
               /\ UNCHANGED background_tasks
          ELSE /\ responses' = Append(responses,
                     Response(event, page_id, book_id,
                        Success(<<"Processamento da pagina ">>
                                  \o Numeral(page_id)
                                  \o <<" iniciado em background.">>)))
               /\ background_tasks' = Append(background_tasks,
                     [page_id |-> page_id, request |-> Len(responses) + 1])
    /\ UNCHANGED <<procVars, MONITORED_BOOK_IDS>>
    /\ UNCHANGED <<envVars, openwebui, callVars, units>>

\* POST /webhook/bookstack with a payload that parses.
bookstack_webhook ==
    /\ Len(responses) < MaxRequests
    /\ \E event \in Events, page_id \in PageIds, book_id \in BookIds :
          IF event \notin SupportedEvents
          THEN /\ responses' = Append(responses,
                     Response(event, page_id, book_id,
                        Ignored(<<"Event type ", event, " not supported">>)))
               /\ UNCHANGED background_tasks
          ELSE IF "is_book_monitored" \notin BookStackAPI_methods
          THEN /\ responses' = Append(responses,
                     Response(event, page_id, book_id,
                        ServerError("AttributeError")))
               /\ UNCHANGED background_tasks
          ELSE IF ~is_book_monitored(book_id, MONITORED_BOOK_IDS)
          THEN /\ responses' = Append(responses,
                     Response(event, page_id, book_id,
                        Ignored(<<"Book not in monitored list">>)))
               /\ UNCHANGED background_tasks
          ELSE /\ responses' = Append(responses,
                     Response(event, page_id, book_id,
                        Success(<<"Processamento da pagina ">>
                                  \o Numeral(page_id)
                                  \o <<" iniciado em background.">>)))
               /\ background_tasks' = Append(background_tasks,
                     [page_id |-> page_id, request |-> Len(responses) + 1])
    /\ UNCHANGED <<procVars, MONITORED_BOOK_IDS>>
    /\ UNCHANGED <<envVars, openwebui, callVars, units>>

NextWebhook == bookstack_webhook

WebhookSpec == InitApp /\ [][NextWebhook]_vars

(***************************************************************************)
(* The simulated sink and process_and_index, called directly on a          *)
(* processor as the integration tests do.  What the sink "emits" is the    *)
(* payload it builds for each chunk (the POST itself is commented out in   *)
(* the source).                                                            *)
(***************************************************************************)
DocTexts == {<<>>, <<"a">>, <<"a", "b", "a", "b">>}
ChunkLists == {<<>>, << <<"a">>, <<"b", "a">> >>}
PageName == <<"P">>

\* str(v) inside an f-string, for None or a string.
str(v) == IF v.set THEN v.v ELSE <<"N", "o", "n", "e">>

\* all([...]) replaced by any([...]).
_simulate_openwebui_ingestion_any(page_id, page_name, chunk_list) ==
    IF ~(\/ truthy(openwebui.base_url)
         \/ truthy(openwebui.api_key)
         \/ truthy(openwebui.kb_name))
    THEN <<>>
    ELSE [i \in 1..Len(chunk_list) |->
            [chunk_id |-> Numeral(page_id) \o <<"-">> \o Numeral(i - 1),
             text |-> chunk_list[i],
             metadata |->
                [source |-> <<"BookStack Page ID: ">> \o Numeral(page_id),
                 title |-> page_name,
                 url |-> str(env_BOOKSTACK.base_url) \o <<"view/">>
                            \o Numeral(page_id)]]]

\* The payloads built, in order; none when a credential is missing or empty.
_simulate_openwebui_ingestion(page_id, page_name, chunk_list) ==
    IF ~(/\ truthy(openwebui.base_url)
         /\ truthy(openwebui.api_key)
         /\ truthy(openwebui.kb_name))
    THEN <<>>
    ELSE [i \in 1..Len(chunk_list) |->
            [chunk_id |-> Numeral(page_id) \o <<"-">> \o Numeral(i - 1),
             text |-> chunk_list[i],
             metadata |->
                [source |-> <<"BookStack Page ID: ">> \o Numeral(page_id),
                 title |-> page_name,
                 url |-> str(env_BOOKSTACK.base_url) \o <<"view/">>
                            \o Numeral(page_id)]]]

\* One call of the sink, as process_and_index or a test makes it.
IngestionCall(page_id, page_name, chunk_list) ==
    [page_id |-> page_id, page_name |-> page_name, chunks |-> chunk_list]

\* The sink is skipped when the chunker returned nothing.
process_and_index_skip_empty(page_id, page_name, markdown_content) ==
    LET split == split_text(markdown_content)
        list == TextOf(split)
    IN  [chunks |-> list,
         ingested |-> IF list = <<>> THEN <<>>
                      ELSE <<IngestionCall(page_id, page_name, list)>>,
         payloads |-> _simulate_openwebui_ingestion(page_id, page_name, list)]

\* The chunks, the sink calls made and the payloads built by one call.
process_and_index(page_id, page_name, markdown_content) ==
    LET split == split_text(markdown_content)
        list == TextOf(split)
    IN  [chunks |-> list,
         ingested |-> <<IngestionCall(page_id, page_name, list)>>,
         payloads |-> _simulate_openwebui_ingestion(page_id, page_name, list)]

\* History of one call: its arguments, and in list the chunk list it was
\* given (ingestion) or got back from the splitter.
Call(op, page_id, text, list) ==
    [op |-> op, page_id |-> page_id, text |-> text, list |-> list]

\* History of what the splitter returned for each content, and whether it
\* returned the same list for it more than once.
Remember(text, list) ==
    IF \E r \in results : r.content = text /\ r.chunks = list
    THEN {IF r.content = text /\ r.chunks = list
          THEN [r EXCEPT !.repeated = TRUE] ELSE r : r \in results}
    ELSE results \cup {[content |-> text, chunks |-> list, repeated |-> FALSE]}

\* The environment a processor is built in.
InitProcessor ==
    /\ env_CHUNK_SIZE \in {Unset, EnvStr(Numeral(3))}
    /\ env_CHUNK_OVERLAP \in {Unset, EnvStr(Numeral(1))}
    /\ phase = "new"
    /\ chunk_size = 0
    /\ chunk_overlap = 0
    /\ content = <<>>
    /\ chunks = <<>>
    /\ starts = <<>>
    /\ MONITORED_BOOK_IDS = {}
    /\ background_tasks = <<>>
    /\ responses = <<>>
    /\ env_OPENWEBUI \in [base_url : CredValues, api_key : CredValues,
                          kb_name : CredValues]
    /\ env_BOOKSTACK = FixtureBookStack
    /\ openwebui = NoFields
    /\ NoCalls
    /\ units = <<>>

\* The call leaves a trace in the splitter: the overlap is used up.
call_split_into_chunks_stateful ==
    /\ phase = "ready"
    /\ \E text \in DocTexts :
          LET list == TextOf(split_text(text))
          IN  /\ last_call' = Call("_split_into_chunks", 0, text, list)
              /\ results' = Remember(text, list)
    /\ ingested' = <<>>
    /\ payloads' = <<>>
    /\ chunk_overlap' = 0
    /\ UNCHANGED <<env_CHUNK_SIZE, env_CHUNK_OVERLAP, phase, chunk_size,
                   content, chunks, starts>>
    /\ UNCHANGED <<hookVars, envVars, openwebui, units>>

\* processor._split_into_chunks(text), on a processor that stays in use.
call_split_into_chunks ==
    /\ phase = "ready"
    /\ \E text \in DocTexts :
          LET list == TextOf(split_text(text))
          IN  /\ last_call' = Call("_split_into_chunks", 0, text, list)
              /\ results' = Remember(text, list)
    /\ ingested' = <<>>
    /\ payloads' = <<>>
    /\ UNCHANGED <<procVars, hookVars, envVars, openwebui, units>>

\* processor._simulate_openwebui_ingestion(page_id, page_name, chunk_list)
call_simulate_openwebui_ingestion ==
    /\ phase = "ready"
    /\ \E page_id \in PageIds, list \in ChunkLists :
          /\ last_call' = Call("_simulate_openwebui_ingestion", page_id,
                               <<>>, list)
          /\ ingested' = <<IngestionCall(page_id, PageName, list)>>
          /\ payloads' = _simulate_openwebui_ingestion(page_id, PageName, list)
    /\ UNCHANGED <<procVars, hookVars, envVars, openwebui, results, units>>

\* await processor.process_and_index(page_id, page_name, text)
call_process_and_index ==
    /\ phase = "ready"
    /\ \E page_id \in PageIds, text \in DocTexts :
          LET r == process_and_index(page_id, PageName, text)
          IN  /\ last_call' = Call("process_and_index", page_id, text,
                                   r.chunks)
              /\ ingested' = r.ingested
              /\ payloads' = r.payloads
              /\ results' = Remember(text, r.chunks)
    /\ UNCHANGED <<procVars, hookVars, envVars, openwebui, units>>

NextProcessor ==
    \/ RAGProcessor_init
    \/ call_split_into_chunks
    \/ call_simulate_openwebui_ingestion
    \/ call_process_and_index

ProcessorSpec == InitProcessor /\ [][NextProcessor]_vars

(***************************************************************************)
(* The document fetcher of app/bookstack_api.py.  A call either returns a  *)
(* value or raises; what the server answers is an input.                   *)
(***************************************************************************)
Return(value) == [raised |-> FALSE, exception |-> "", value |-> value]
Raise(exception) == [raised |-> TRUE, exception |-> exception, value |-> <<>>]

\* The values response.json() can return (None is the JSON null).
Json(kind, n, keys, markdown) ==
    [kind |-> kind, n |-> n, keys |-> keys, markdown |-> markdown]
None == Json("null", 0, {}, <<>>)
JsonNumber(n) == Json("number", n, {}, <<>>)
JsonObject(keys, markdown) == Json("object", 0, keys, markdown)

JsonBodies ==
    {None, JsonNumber(1), JsonObject({}, <<>>), JsonObject({"id"}, <<>>)}
      \cup {JsonObject({"id", "markdown"}, t) : t \in DocTexts}

\* bool(data)
bool(data) ==
    CASE data.kind = "null" -> FALSE
      [] data.kind = "number" -> data.n # 0
      [] data.kind = "object" -> data.keys # {}

\* What the server does with one request.
ServerResponse(kind, body) == [kind |-> kind, body |-> body]
NoRequest == ServerResponse("no_request", None)
ServerResponses ==
    {ServerResponse(k, None) : k \in {"http_error", "request_error",
                                      "invalid_json"}}
      \cup {ServerResponse("json", b) : b \in JsonBodies}

\* BookStackAPI.__init__: the fields of the client built from the environment.
BookStackAPI_init(env) ==
    [base_url |->
        IF truthy(env.base_url) /\ env.base_url.v[Len(env.base_url.v)] # "/"
        THEN EnvStr(env.base_url.v \o <<"/">>)
        ELSE env.base_url,
     token_id |-> env.token_id,
     token_secret |-> env.token_secret]

\* main.py builds one client when the module is loaded.
bookstack_api == BookStackAPI_init(env_BOOKSTACK)

has_credentials ==
    /\ truthy(bookstack_api.base_url)
    /\ truthy(bookstack_api.token_id)
    /\ truthy(bookstack_api.token_secret)

\* BookStackAPI._make_request: the outcomes of one request.  A body that
\* is not JSON makes response.json() raise; whether that exception is a
\* RequestException depends on the installed version of requests.
_make_request(response) ==
    IF ~has_credentials THEN {Return(None)}
    ELSE CASE response.kind = "http_error" -> {Return(None)}
           [] response.kind = "request_error" -> {Return(None)}
           [] response.kind = "invalid_json" ->
                {Return(None), Raise("JSONDecodeError")}
           [] response.kind = "json" -> {Return(response.body)}

\* BookStackAPI.get_page_content: the outcomes of one fetch.
get_page_content(response) ==
    {IF r.raised THEN r
     ELSE LET data == r.value
          IN  IF ~bool(data) THEN Return(<<>>)
              ELSE IF data.kind # "object" THEN Raise("TypeError")
              ELSE IF "markdown" \in data.keys THEN Return(data.markdown)
              ELSE Return(<<>>)
     : r \in _make_request(response)}

(***************************************************************************)
(* The background unit of work, process_bookstack_update, invoked as the   *)
(* task runner would invoke it.  A unit stops at its one suspension point, *)
(* the fetch in the thread pool; process_and_index has no await inside, so *)
(* splitting and ingestion run without interruption.                       *)
(***************************************************************************)
\* The module body of main.py has run.
InitUnits ==
    /\ \E cfg \in {<<Unset, Unset>>,
                   <<EnvStr(Numeral(3)), EnvStr(Numeral(1))>>} :
          /\ env_CHUNK_SIZE = cfg[1]
          /\ env_CHUNK_OVERLAP = cfg[2]
          /\ chunk_size = getenv_int(cfg[1], DefaultChunkSize).n
          /\ chunk_overlap = getenv_int(cfg[2], DefaultChunkOverlap).n
    /\ phase = "ready"
    /\ content = <<>>
    /\ chunks = <<>>
    /\ starts = <<>>
    /\ MONITORED_BOOK_IDS = {1, 2}
    /\ background_tasks = <<>>
    /\ responses = <<>>
    /\ env_OPENWEBUI = FixtureOpenWebUI
    /\ env_BOOKSTACK \in
          {FixtureBookStack, [FixtureBookStack EXCEPT !.token_secret = Unset]}
    /\ openwebui = env_OPENWEBUI
    /\ NoCalls
    /\ units = <<>>

\* Lines 55-60: the unit starts and hands the fetch to the thread pool.
process_bookstack_update ==
    /\ Len(units) < MaxUnits
    /\ \E page_id \in PageIds :
          units' = Append(units,
             [page_id |-> page_id, pc |-> "fetching", response |-> NoRequest,
              raised |-> FALSE, markdown_content |-> <<>>,
              split |-> <<>>, ingested |-> <<>>])
    /\ UNCHANGED <<procVars, hookVars, envVars, openwebui, callVars>>

\* bookstack_api.get_page_content(page_id) in the thread pool.
process_bookstack_update_fetch ==
    /\ \E u \in 1..Len(units), response \in ServerResponses :
          /\ units[u].pc = "fetching"
          /\ \E r \in get_page_content(response) :
                units' = [units EXCEPT ![u] =
                   [@ EXCEPT !.pc = IF r.raised THEN "failed" ELSE "fetched",
                             !.response = IF has_credentials THEN response
                                          ELSE NoRequest,
                             !.raised = r.raised,
                             !.markdown_content = r.value]]
    /\ UNCHANGED <<procVars, hookVars, envVars, openwebui, callVars>>

\* The unit leaves a trace in the shared splitter: the overlap is used up.
process_bookstack_update_resume_stateful ==
    /\ \E u \in 1..Len(units) :
          /\ units[u].pc = "fetched"
          /\ LET unit == units[u]
                 r == process_and_index(unit.page_id, PageName,
                                        unit.markdown_content)
             IN  IF unit.markdown_content = <<>>
                 THEN /\ units' = [units EXCEPT ![u].pc = "done"]
                      /\ UNCHANGED chunk_overlap
                 ELSE /\ units' = [units EXCEPT ![u] =
                            [@ EXCEPT !.pc = "done",
                                      !.split = <<unit.markdown_content>>,
                                      !.ingested = r.ingested]]
                      /\ chunk_overlap' = 0
    /\ UNCHANGED <<env_CHUNK_SIZE, env_CHUNK_OVERLAP, phase, chunk_size,
                   content, chunks, starts>>
    /\ UNCHANGED <<hookVars, envVars, openwebui, callVars>>

\* Lines 62-69: back on the event loop with the fetched content.
process_bookstack_update_resume ==
    /\ \E u \in 1..Len(units) :
          /\ units[u].pc = "fetched"
          /\ LET unit == units[u]
                 r == process_and_index(unit.page_id, PageName,
                                        unit.markdown_content)
             IN  IF unit.markdown_content = <<>>
                 THEN units' = [units EXCEPT ![u].pc = "done"]
                 ELSE units' = [units EXCEPT ![u] =
                            [@ EXCEPT !.pc = "done",
                                      !.split = <<unit.markdown_content>>,
                                      !.ingested = r.ingested]]
    /\ UNCHANGED <<procVars, hookVars, envVars, openwebui, callVars>>

NextUnits ==
    \/ process_bookstack_update
    \/ process_bookstack_update_fetch
    \/ process_bookstack_update_resume

UnitSpec == InitUnits /\ [][NextUnits]_vars

(***************************************************************************)
(* Vocabulary of the properties of a finished chunking call.               *)
(***************************************************************************)
Returned == phase = "returned"

\* The configuration the processor runs with satisfies 0 <= O < M.
ValidConfig == 0 <= chunk_overlap /\ chunk_overlap < chunk_size

\* Index in content of the last character of chunk i.
EndOf(i) == starts[i] + Len(chunks[i]) - 1

\* Chunk i is the text of content at the position recorded for it.
Verbatim(i) ==
    /\ 1 <= starts[i]
    /\ EndOf(i) <= Len(content)
    /\ chunks[i] = SubSeq(content, starts[i], EndOf(i))

Min(a, b) == IF a <= b THEN a ELSE b

\* Number of characters at the start of chunk i (i > 1) that repeat the end
\* of chunk i - 1: the characters of content that both chunks hold.
Shared(i) ==
    IF starts[i - 1] <= starts[i] /\ starts[i] <= EndOf(i - 1)
    THEN Min(EndOf(i - 1), EndOf(i)) - starts[i] + 1
    ELSE 0

\* The chunks in order, each without the prefix it repeats.
RECURSIVE ReassembledFrom(_)
ReassembledFrom(i) ==
    IF i > Len(chunks) THEN <<>>
    ELSE SubSeq(chunks[i], (IF i = 1 THEN 0 ELSE Shared(i)) + 1, Len(chunks[i]))
           \o ReassembledFrom(i + 1)

Reassembled == ReassembledFrom(1)

\* A string without its whitespace characters.
Squeeze(s) == SelectSeq(s, LAMBDA c : c \notin Whitespace)

HasEdgeWhitespace(s) ==
    s # <<>> /\ (s[1] \in Whitespace \/ s[Len(s)] \in Whitespace)

\* s without its leading and trailing whitespace.
Trimmed(s) ==
    LET keep == {i \in 1..Len(s) : s[i] \notin Whitespace}
    IN  IF keep = {} THEN <<>>
        ELSE SubSeq(s, CHOOSE i \in keep : \A j \in keep : i <= j,
                       CHOOSE i \in keep : \A j \in keep : j <= i)

\* C1 as stated: an input no longer than M comes back as one chunk equal to
\* the input character for character, edge whitespace included.
C1_Original ==
    (Returned /\ ValidConfig /\ content # <<>> /\ Len(content) <= chunk_size)
        => chunks = <<content>>

\* C1: for 0 <= O < M and a non-empty input s with len(s) <= M, the call
\* returns exactly one chunk equal to s when s neither starts nor ends with
\* whitespace; otherwise the edge whitespace is stripped (one chunk,
\* s.strip(), and no chunk when s is all whitespace), except for M = 1,
\* where the one-character input is returned as it is.
C1_SmallInputOneStrippedChunk ==
    (Returned /\ ValidConfig /\ content # <<>> /\ Len(content) <= chunk_size)
        => chunks = IF chunk_size = 1 THEN <<content>>
                    ELSE IF Trimmed(content) = <<>> THEN <<>>
                    ELSE <<Trimmed(content)>>

C1_Witness ==
    /\ Returned /\ ValidConfig
    /\ Len(content) = chunk_size /\ chunk_size > 1
    /\ content[1] \in Whitespace /\ content[Len(content)] \in Letters
    /\ chunks = <<Trimmed(content)>>

\* C2: for 0 <= O < M no returned chunk is longer than M, and every chunk
\* is a verbatim (untruncated) stretch of the input; the character-level
\* separator leaves no indivisible unit longer than M.
C2_ChunkLengthBounded ==
    (Returned /\ ValidConfig)
        => \A i \in 1..Len(chunks) :
              Len(chunks[i]) <= chunk_size /\ Verbatim(i)

C2_Witness ==
    /\ Returned /\ ValidConfig
    /\ Len(content) > chunk_size
    /\ Len(chunks) >= 2
    /\ \E i \in 1..Len(chunks) : Len(chunks[i]) = chunk_size /\ chunk_size > 1

\* C3 as stated: the chunks, each without the prefix it repeats from the
\* previous chunk, concatenate to the input exactly.
C3_Original ==
    (Returned /\ ValidConfig) => Reassembled = content

\* C3: the chunks, each without the prefix it repeats from the previous
\* chunk, concatenate to the input up to whitespace: every non-whitespace
\* character is kept, in order, and each chunk is a verbatim stretch of
\* the input; only whitespace at the edges of chunks is dropped.
C3_NoTextDropped ==
    (Returned /\ ValidConfig)
        => /\ Squeeze(Reassembled) = Squeeze(content)
           /\ \A i \in 1..Len(chunks) : Verbatim(i)
           /\ \A j \in 1..Len(content) :
                 content[j] \notin Whitespace
                    => \E i \in 1..Len(chunks) : starts[i] <= j /\ j <= EndOf(i)

C3_Witness ==
    /\ Returned /\ ValidConfig
    /\ Len(chunks) >= 2
    /\ chunk_overlap > 0
    /\ \E i \in 2..Len(chunks) : Shared(i) > 0
    /\ Reassembled # content

\* C4: for 0 <= O < M every chunk after the first starts at or after the
\* start of the one before it, begins with the characters it shares with
\* the end of that chunk, and shares at most O characters with it; with
\* O = 0 consecutive chunks share nothing.
C4_OverlapAtMostO ==
    (Returned /\ ValidConfig)
        => \A i \in 2..Len(chunks) :
              /\ starts[i - 1] <= starts[i]
              /\ Shared(i) <= chunk_overlap
              /\ SubSeq(chunks[i], 1, Shared(i))
                    = SubSeq(chunks[i - 1],
                             Len(chunks[i - 1]) - Shared(i) + 1,
                             Len(chunks[i - 1]))

C4_Witness ==
    /\ Returned /\ ValidConfig
    /\ \E i \in 2..Len(chunks) :
          Shared(i) = chunk_overlap /\ chunk_overlap >= 2
    /\ \E i \in 2..Len(chunks) : Shared(i) = 0

\* C5: the empty string is split into the empty list, under every
\* configuration the constructor accepts.
C5_EmptyInputNoChunks ==
    (Returned /\ content = <<>>) => chunks = <<>>

C5_Witness ==
    Returned /\ content = <<>> /\ chunks = <<>> /\ chunk_size <= MaxSize

\* C6: every returned chunk is a non-empty string, and the chunks come in
\* the order of their positions in the input: neither the start nor the
\* end of a chunk lies before that of the chunk preceding it.
C6_NonEmptyInOrder ==
    (Returned /\ ValidConfig)
        => /\ \A i \in 1..Len(chunks) : chunks[i] # <<>> /\ Verbatim(i)
           /\ \A i \in 2..Len(chunks) :
                 starts[i - 1] <= starts[i] /\ EndOf(i - 1) <= EndOf(i)

C6_Witness ==
    /\ Returned /\ ValidConfig
    /\ Len(chunks) >= 3
    /\ \E j \in 1..Len(content) : content[j] \in Whitespace
    /\ \E i \in 2..Len(chunks) : starts[i - 1] < starts[i]

(***************************************************************************)
(* Vocabulary of the properties of construction.                           *)
(***************************************************************************)
Constructed == phase # "new"
Accepted == phase \in {"ready", "returned"}

\* The environment value e is the decimal numeral of n.
Holds(e, n) == e = EnvStr(Numeral(n))
NumericEnv(e) == \E n \in 0..(MaxSize + 2) : Holds(e, n)
NonNumericEnv(e) == e.set /\ ~NumericEnv(e)

\* C7 as stated: numeric overlap >= size, equality included, fails at
\* construction.
C7_Original ==
    \A m, o \in 0..(MaxSize + 2) :
        (Constructed /\ Holds(env_CHUNK_SIZE, m) /\ Holds(env_CHUNK_OVERLAP, o)
            /\ o >= m)
          => phase = "config_error"

\* C7: a numeric configuration whose overlap is strictly greater than the
\* maximum chunk size fails at construction, and one whose overlap equals
\* the size is accepted with those values; so no chunking call runs with
\* O > M.
C7_OverlapAboveSizeRejected ==
    /\ \A m, o \in 0..(MaxSize + 2) :
          (Constructed /\ Holds(env_CHUNK_SIZE, m)
              /\ Holds(env_CHUNK_OVERLAP, o))
            => /\ o > m => phase = "config_error"
               /\ o = m => Accepted /\ chunk_size = m /\ chunk_overlap = m
    /\ Accepted => chunk_overlap <= chunk_size

C7_Witness ==
    /\ phase = "config_error"
    /\ NumericEnv(env_CHUNK_SIZE) /\ NumericEnv(env_CHUNK_OVERLAP)
    /\ chunk_overlap = chunk_size + 1

\* The documented configuration for the environment: the defaults when a
\* value is not numeric, else each value, a missing one being its default.
ExpectedSize ==
    IF NonNumericEnv(env_CHUNK_SIZE) \/ NonNumericEnv(env_CHUNK_OVERLAP)
        \/ ~env_CHUNK_SIZE.set
    THEN DefaultChunkSize
    ELSE CHOOSE n \in 0..(MaxSize + 2) : Holds(env_CHUNK_SIZE, n)

ExpectedOverlap ==
    IF NonNumericEnv(env_CHUNK_SIZE) \/ NonNumericEnv(env_CHUNK_OVERLAP)
        \/ ~env_CHUNK_OVERLAP.set
    THEN DefaultChunkOverlap
    ELSE CHOOSE n \in 0..(MaxSize + 2) : Holds(env_CHUNK_OVERLAP, n)

MissingOrNonNumeric ==
    \/ ~env_CHUNK_SIZE.set \/ NonNumericEnv(env_CHUNK_SIZE)
    \/ ~env_CHUNK_OVERLAP.set \/ NonNumericEnv(env_CHUNK_OVERLAP)

\* C8 as stated: with a missing or non-numeric value construction succeeds
\* with the documented configuration.
C8_Original ==
    (Constructed /\ MissingOrNonNumeric)
        => /\ Accepted
           /\ chunk_size = ExpectedSize
           /\ chunk_overlap = ExpectedOverlap

\* C8: with a missing or non-numeric value the configuration is the
\* documented one (a missing value takes its own default, a non-numeric
\* value makes both 1000 and 200), and construction succeeds unless the
\* resulting overlap is greater than the resulting size, in which case it
\* fails with the configuration error; with a non-numeric value it always
\* succeeds.
C8_FallbackToDefaults ==
    (Constructed /\ MissingOrNonNumeric)
        => /\ chunk_size = ExpectedSize
           /\ chunk_overlap = ExpectedOverlap
           /\ Accepted <=> ExpectedOverlap <= ExpectedSize
           /\ (NonNumericEnv(env_CHUNK_SIZE) \/ NonNumericEnv(env_CHUNK_OVERLAP))
                 => /\ Accepted
                    /\ chunk_size = DefaultChunkSize
                    /\ chunk_overlap = DefaultChunkOverlap

C8_Witness ==
    /\ Accepted
    /\ NumericEnv(env_CHUNK_SIZE) /\ NonNumericEnv(env_CHUNK_OVERLAP)
    /\ chunk_size = DefaultChunkSize /\ chunk_overlap = DefaultChunkOverlap

(***************************************************************************)
(* Properties of the webhook handler.                                      *)
(***************************************************************************)
\* C9: every notification that parses is answered with an acknowledgment
\* of status "ignored" or "success", never with an error, whatever its
\* event kind and book id.
C9_AlwaysAcknowledged ==
    \A i \in 1..Len(responses) :
        responses[i].body.status \in {"ignored", "success"}

\* C10: a notification of a supported event kind for a book that is not
\* monitored is answered "ignored" with the reason "Book not in monitored
\* list", and no background task is scheduled for it.
C10_UnmonitoredBookIgnored ==
    \A i \in 1..Len(responses) :
        (responses[i].event \in SupportedEvents
            /\ responses[i].book_id \notin MONITORED_BOOK_IDS)
          => /\ responses[i].body = Ignored(<<"Book not in monitored list">>)
             /\ \A k \in 1..Len(background_tasks) :
                   background_tasks[k].request # i

\* The answer to a notification whose event kind is refused.
EventIgnored(event) == Ignored(<<"Event type ", event, " not supported">>)

\* The background tasks scheduled by notification i.
TasksOf(i) == {k \in 1..Len(background_tasks) : background_tasks[k].request = i}

\* C11: a notification whose event kind is not page_update or page_create
\* is answered "ignored" with the reason "Event type <kind> not supported";
\* the answer is given before the book is looked up (the lookup, which
\* fails, never runs for it) and no background task is scheduled.
C11_UnsupportedEventIgnored ==
    \A i \in 1..Len(responses) :
        responses[i].event \notin {"page_update", "page_create"}
          => /\ responses[i].body = EventIgnored(responses[i].event)
             /\ TasksOf(i) = {}

C11_Witness ==
    \E i \in 1..Len(responses) :
        /\ responses[i].event = "page_delete"
        /\ responses[i].book_id \in MONITORED_BOOK_IDS
        /\ responses[i].body = EventIgnored("page_delete")

\* C12 as stated: the event kinds that pass the event-kind check are
\* exactly "created" and "updated".
C12_Original ==
    \A i \in 1..Len(responses) :
        responses[i].event \in {"created", "updated"}
          <=> responses[i].body # EventIgnored(responses[i].event)

\* C12: the event kinds that pass the event-kind check are exactly
\* "page_update" and "page_create"; every other kind, "created" and
\* "updated" included, is answered with the event-kind refusal.
C12_SupportedEventKinds ==
    \A i \in 1..Len(responses) :
        responses[i].event \in {"page_update", "page_create"}
          <=> responses[i].body # EventIgnored(responses[i].event)

C12_Witness ==
    /\ \E i \in 1..Len(responses) :
          /\ responses[i].event = "page_create"
          /\ responses[i].body # EventIgnored("page_create")
    /\ \E i \in 1..Len(responses) :
          /\ responses[i].event = "created"
          /\ responses[i].body = EventIgnored("created")

\* C13: a notification of a supported event kind for a monitored book is
\* answered "success" and schedules exactly one background task, for its
\* page.
C13_AcceptedScheduledOnce ==
    \A i \in 1..Len(responses) :
        (responses[i].event \in SupportedEvents
            /\ responses[i].book_id \in MONITORED_BOOK_IDS)
          => /\ responses[i].body.status = "success"
             /\ Cardinality(TasksOf(i)) = 1
             /\ \A k \in TasksOf(i) :
                   background_tasks[k].page_id = responses[i].page_id


(***************************************************************************)
(* Claims about the background unit of work.                               *)
(***************************************************************************)
\* The fetch of a unit is over.
Fetched(unit) == unit.pc # "fetching"

\* The fetch of a unit failed: no request could be sent, the request or the
\* response was in error, or the response carries no markdown field.
FetchFailed(unit) ==
    \/ unit.response.kind \in {"no_request", "http_error", "request_error",
                               "invalid_json"}
    \/ /\ unit.response.kind = "json"
       /\ "markdown" \notin unit.response.body.keys

\* C14: a fetch that fails in any way yields empty content and raises
\* nothing; a unit whose content is empty ends without a call of the chunker
\* or the sink, and a unit whose content is not empty calls each exactly
\* once.
C14_FetchFailureIsSilent ==
    \A u \in 1..Len(units) :
        Fetched(units[u]) =>
          /\ FetchFailed(units[u]) =>
                ~units[u].raised /\ units[u].markdown_content = <<>>
          /\ units[u].pc = "done" =>
                IF units[u].markdown_content = <<>>
                THEN units[u].split = <<>> /\ units[u].ingested = <<>>
                ELSE Len(units[u].split) = 1 /\ Len(units[u].ingested) = 1


(***************************************************************************)
(* Claims about process_and_index and the sink.                            *)
(***************************************************************************)
\* C15: a call process_and_index(page_id, page_name, content) calls the
\* ingestion exactly once, with the same page id and name and with the
\* chunk list _split_into_chunks(content) returns, the empty list included.
C15_IngestionOncePerCall ==
    last_call.op = "process_and_index" =>
        ingested = <<IngestionCall(last_call.page_id, PageName,
                                   TextOf(split_text(last_call.text)))>>

C15_Witness ==
    /\ last_call.op = "process_and_index"
    /\ last_call.text = <<>>
    /\ Len(ingested) = 1
    /\ ingested[1].chunks = <<>>

\* A credential that is missing or empty.
Missing(v) == ~v.set \/ v.v = <<>>

AnyCredentialMissing ==
    \/ Missing(openwebui.base_url)
    \/ Missing(openwebui.api_key)
    \/ Missing(openwebui.kb_name)

\* C16: with a sink credential missing or empty, a call of the ingestion
\* emits no payload, whatever the page and the chunk list; with all three
\* present it emits one payload per chunk, in order, and payload i (from 0)
\* has the chunk id "<page_id>-<i>".
C16_PayloadPerChunkOrNone ==
    \A c \in 1..Len(ingested) :
        IF AnyCredentialMissing
        THEN payloads = <<>>
        ELSE /\ Len(payloads) = Len(ingested[c].chunks)
             /\ \A i \in 1..Len(payloads) :
                   /\ payloads[i].text = ingested[c].chunks[i]
                   /\ payloads[i].chunk_id =
                         Numeral(ingested[c].page_id) \o <<"-">>
                            \o Numeral(i - 1)

C16_Witness ==
    /\ last_call.op = "_simulate_openwebui_ingestion"
    /\ Len(last_call.list) = 2
    /\ openwebui.api_key = EnvStr(<<>>)
    /\ ~Missing(openwebui.base_url)
    /\ ~Missing(openwebui.kb_name)
    /\ payloads = <<>>

\* C17: two calls of _split_into_chunks with the same content return the
\* same chunks, whatever was called in between, and a call changes neither
\* the configuration nor any other field of the processor.
C17_SplitDeterministicNoSideEffects ==
    /\ [](\A r1, r2 \in results :
             r1.content = r2.content => r1.chunks = r2.chunks)
    /\ [][last_call'.op = "_split_into_chunks"
             => UNCHANGED <<chunk_size, chunk_overlap, openwebui, phase>>]_vars

C17_Witness ==
    /\ last_call.op = "_split_into_chunks"
    /\ Cardinality(results) = Cardinality(DocTexts)
    /\ \E r \in results :
          /\ r.content = last_call.text
          /\ r.chunks = last_call.list
          /\ r.repeated
          /\ Len(r.chunks) = 2


(***************************************************************************)
(* Claims about concurrent background units.                               *)
(***************************************************************************)
\* What a unit that runs alone delivers to the sink for the content it
\* fetched.
DeliveredAlone(unit) ==
    IF unit.markdown_content = <<>> THEN <<>>
    ELSE <<IngestionCall(unit.page_id, PageName,
                         TextOf(split_text(unit.markdown_content)))>>

\* C18: however the steps of concurrent units interleave, each finished unit
\* has delivered to the sink the chunks it delivers when it runs alone, and
\* no step changes the chunking configuration or the monitored book ids.
C18_UnitsIndependent ==
    /\ [](\A u \in 1..Len(units) :
             units[u].pc = "done" =>
                units[u].ingested = DeliveredAlone(units[u]))
    /\ [][UNCHANGED <<chunk_size, chunk_overlap, MONITORED_BOOK_IDS>>]_vars

\* The second unit has fetched and delivered two chunks while the first,
\* started before it, is still between its fetch and its ingestion.
C18_Witness ==
    /\ Len(units) = 2
    /\ units[1].pc = "fetched"
    /\ units[1].markdown_content # <<>>
    /\ units[2].pc = "done"
    /\ units[2].markdown_content # units[1].markdown_content
    /\ Len(units[2].ingested) = 1
    /\ Len(units[2].ingested[1].chunks) = 2


(***************************************************************************)
(* Claims about the separator cascade.                                     *)
(***************************************************************************)
ParagraphBreak == <<"\n", "\n">>

\* The pieces of content between paragraph breaks, each with its position.
Paragraphs ==
    LET parts == re_split(Piece(content, 1), ParagraphBreak, 1)
    IN  [k \in 1..((Len(parts) + 1) \div 2) |-> parts[2 * k - 1]]

ParStart(k) == Paragraphs[k].p
ParEnd(k) == Paragraphs[k].p + Len(Paragraphs[k].t) - 1

\* Between positions a and b the content is whitespace only.
Blank(a, b) == \A q \in a..b : content[q] \in Whitespace

\* Chunk i is exactly the paragraphs j..k and the breaks between them.
ExactRun(i, j, k) == starts[i] = ParStart(j) /\ EndOf(i) = ParEnd(k)

\* Chunk i is the paragraphs j..k and the breaks between them, less the
\* whitespace at the two ends of that run.
StrippedRun(i, j, k) ==
    /\ ParStart(j) <= starts[i]
    /\ EndOf(i) <= ParEnd(k)
    /\ Blank(ParStart(j), starts[i] - 1)
    /\ Blank(EndOf(i) + 1, ParEnd(k))

\* C19 as stated: when the input is longer than M and no paragraph is
\* longer than M, every chunk is a run of whole consecutive paragraphs.
C19_Original ==
    (/\ Returned
     /\ Len(content) > chunk_size
     /\ \A k \in 1..Len(Paragraphs) : Len(Paragraphs[k].t) <= chunk_size)
        => \A i \in 1..Len(chunks) :
              \E j \in 1..Len(Paragraphs), k \in 1..Len(Paragraphs) :
                  j <= k /\ ExactRun(i, j, k)

\* Paragraph k as the splitter measures it: with the break kept in front of
\* it, it is shorter than M.
ShortPiece(k) ==
    Len(Paragraphs[k].t) + (IF k > 1 THEN Len(ParagraphBreak) ELSE 0)
        < chunk_size

\* C19: when the input is longer than M and every paragraph, measured with
\* the break kept in front of it, is shorter than M, every chunk is a run of
\* whole consecutive paragraphs less the whitespace at the ends of the run:
\* no chunk starts or ends inside the text of a paragraph.
C19_ChunksAreParagraphRuns ==
    (/\ Returned
     /\ Len(content) > chunk_size
     /\ \A k \in 1..Len(Paragraphs) : ShortPiece(k))
        => \A i \in 1..Len(chunks) :
              \E j \in 1..Len(Paragraphs), k \in 1..Len(Paragraphs) :
                  j <= k /\ StrippedRun(i, j, k)

C19_Witness ==
    /\ Returned
    /\ content = <<"a", "b", "\n", "\n", "a">>
    /\ chunk_size = 4
    /\ chunk_overlap = 3
    /\ chunks = << <<"a", "b">>, <<"a">> >>
    /\ starts = <<1, 5>>

====
